---- MODULE Spec2Model ----
(***************************************************************************)
(* MoneyThumb: the transaction classifier and the fraud scorer of          *)
(* classifiers.py, the pipeline controller of core.py and the /process     *)
(* handler of api.py.                                                      *)
(*                                                                         *)
(* Text is a sequence of one-character strings, so that upper-casing,      *)
(* substring tests and the regular expressions are computed, not assumed.  *)
(* Money is in whole dollars, a confidence in hundredths, a date is its    *)
(* month key and its weekday.  An Optional value is <<>> (None) or <<v>>.  *)
(***************************************************************************)
EXTENDS Integers, Sequences, FiniteSets

----------------------------------------------------------------------------
(* Text: str.upper, the in operator, str.strip, str.split, ' '.join *)

Lowers == <<"a", "b", "c", "d", "e", "f", "g", "h", "i", "j", "k", "l", "m", "n", "o", "p", "q", "r", "s", "t", "u", "v", "w", "x", "y", "z">>

Uppers == <<"A", "B", "C", "D", "E", "F", "G", "H", "I", "J", "K", "L", "M", "N", "O", "P", "Q", "R", "S", "T", "U", "V", "W", "X", "Y", "Z">>

ToUpper(c) ==
    CASE c = "a" -> "A" [] c = "b" -> "B" [] c = "c" -> "C" [] c = "d" -> "D" [] c = "e" -> "E"
      [] c = "f" -> "F" [] c = "g" -> "G" [] c = "h" -> "H" [] c = "i" -> "I" [] c = "j" -> "J"
      [] c = "k" -> "K" [] c = "l" -> "L" [] c = "m" -> "M" [] c = "n" -> "N" [] c = "o" -> "O"
      [] c = "p" -> "P" [] c = "q" -> "Q" [] c = "r" -> "R" [] c = "s" -> "S" [] c = "t" -> "T"
      [] c = "u" -> "U" [] c = "v" -> "V" [] c = "w" -> "W" [] c = "x" -> "X" [] c = "y" -> "Y"
      [] c = "z" -> "Z" [] OTHER -> c

RECURSIVE Upper(_)

Upper(s) == IF s = <<>> THEN <<>> ELSE <<ToUpper(Head(s))>> \o Upper(Tail(s))

IsSpace(c) == c \in {" ", "\t", "\n"}

IsLetter(c) == \E i \in 1..26 : Lowers[i] = c \/ Uppers[i] = c

OccursAt(s, p, i) ==
    /\ i >= 1
    /\ i + Len(p) - 1 <= Len(s)
    /\ \A k \in 1..Len(p) : s[i + k - 1] = p[k]

Contains(s, p) == \E i \in 1..(Len(s) - Len(p) + 1) : OccursAt(s, p, i)

SetMin(S) == CHOOSE x \in S : \A y \in S : x <= y

SetMax(S) == CHOOSE x \in S : \A y \in S : x >= y

Strip(s) ==
    LET ink == {i \in 1..Len(s) : ~IsSpace(s[i])}
    IN  IF ink = {} THEN <<>> ELSE SubSeq(s, SetMin(ink), SetMax(ink))

RECURSIVE Split(_)
Split(s) ==
    LET ink == {i \in 1..Len(s) : ~IsSpace(s[i])}
    IN  IF ink = {} THEN <<>>
        ELSE LET b == SetMin(ink)
                 stops == {i \in b..Len(s) : IsSpace(s[i])}
                 e == IF stops = {} THEN Len(s) ELSE SetMin(stops) - 1
             IN  <<SubSeq(s, b, e)>> \o Split(SubSeq(s, e + 1, Len(s)))

RECURSIVE Join(_)
Join(words) ==
    IF Len(words) = 0 THEN <<>>
    ELSE IF Len(words) = 1 THEN words[1]
    ELSE words[1] \o <<" ">> \o Join(Tail(words))

(* re.search(pattern, s, re.IGNORECASE) for the patterns of the lender     *)
(* table: literals joined by dot-star, which matches no line break.  A     *)
(* leading or trailing dot-star matches the empty string: no constraint.   *)
RegexSearch(parts, s) ==
    LET u == Upper(s)
        a == Upper(parts[1])
    IN  IF Len(parts) = 1 THEN Contains(u, a)
        ELSE LET b == Upper(parts[2])
             IN  \E i \in 1..Len(u) : \E j \in 1..Len(u) :
                    /\ OccursAt(u, a, i)
                    /\ OccursAt(u, b, j)
                    /\ j >= i + Len(a)
                    /\ \A k \in (i + Len(a))..(j - 1) : u[k] # "\n"

----------------------------------------------------------------------------
(* TransactionClassifier.__init__: the rule tables *)

true_revenue ==
    << <<"A", "C", "H", " ", "C", "r", "e", "d", "i", "t", " ", "f", "r", "o", "m", " ", "c", "u", "s", "t", "o", "m", "e", "r", "s">>,
       <<"W", "i", "r", "e", " ", "t", "r", "a", "n", "s", "f", "e", "r", "s", " ", "f", "r", "o", "m", " ", "c", "l", "i", "e", "n", "t", "s">>,
       <<"C", "h", "e", "c", "k", " ", "d", "e", "p", "o", "s", "i", "t", "s", " ", "f", "r", "o", "m", " ", "s", "a", "l", "e", "s">>,
       <<"C", "r", "e", "d", "i", "t", " ", "c", "a", "r", "d", " ", "d", "e", "p", "o", "s", "i", "t", "s">>,
       <<"C", "a", "s", "h", " ", "d", "e", "p", "o", "s", "i", "t", "s">>,
       <<"P", "A", "Y", "M", "E", "N", "T">>,
       <<"D", "E", "P", "O", "S", "I", "T">>,
       <<"C", "R", "E", "D", "I", "T", " ", "C", "A", "R", "D", " ", "S", "E", "T", "T", "L", "E", "M", "E", "N", "T">>,
       <<"W", "I", "R", "E", " ", "T", "R", "A", "N", "S", "F", "E", "R">>,
       <<"A", "C", "H", " ", "C", "R", "E", "D", "I", "T">> >>

non_true_revenue ==
    << <<"O", "n", "l", "i", "n", "e", " ", "T", "r", "a", "n", "s", "f", "e", "r", " ", "F", "r", "o", "m">>,
       <<"R", "e", "v", "e", "r", "s", "a", "l">>,
       <<"C", "r", "e", "d", "i", "t", " ", "R", "e", "t", "u", "r", "n">>,
       <<"B", "o", "o", "k", " ", "T", "r", "a", "n", "s", "f", "e", "r", " ", "C", "r", "e", "d", "i", "t">>,
       <<"L", "o", "a", "n", " ", "p", "r", "o", "c", "e", "e", "d", "s">>,
       <<"M", "C", "A", " ", "d", "e", "p", "o", "s", "i", "t", "s">>,
       <<"T", "R", "A", "N", "S", "F", "E", "R", " ", "F", "R", "O", "M">>,
       <<"R", "E", "T", "U", "R", "N", " ", "I", "T", "E", "M">>,
       <<"L", "O", "A", "N", " ", "D", "E", "P", "O", "S", "I", "T">>,
       <<"T", "A", "X", " ", "R", "E", "F", "U", "N", "D">>,
       <<"I", "N", "S", "U", "R", "A", "N", "C", "E", " ", "C", "L", "A", "I", "M">> >>

mca_patterns ==
    << <<<<"M", "E", "R", "C", "H", "A", "N", "T">>, <<"C", "A", "P", "I", "T", "A", "L">>>>,
       <<<<"B", "U", "S", "I", "N", "E", "S", "S">>, <<"A", "D", "V", "A", "N", "C", "E">>>>,
       <<<<"D", "A", "I", "L", "Y">>, <<"A", "C", "H">>>>,
       <<<<"W", "O", "R", "K", "I", "N", "G">>, <<"C", "A", "P", "I", "T", "A", "L">>>>,
       <<<<"O", "r", "i", "g", " ", "C", "O", " ", "N", "a", "m", "e">>, <<"F", "i", "n", "a", "n", "c", "i", "a", "l">>>>,
       <<<<"F", "U", "N", "D", "I", "N", "G">>, <<"C", "I", "R", "C", "L", "E">>>>,
       <<<<"K", "A", "B", "B", "A", "G", "E">>>>,
       <<<<"O", "N", "D", "E", "C", "K">>>>,
       <<<<"F", "O", "R", "W", "A", "R", "D">>, <<"F", "I", "N", "A", "N", "C", "I", "N", "G">>>>,
       <<<<"R", "A", "P", "I", "D">>, <<"A", "D", "V", "A", "N", "C", "E">>>> >>

operating_expenses ==
    << <<"P", "a", "y", "r", "o", "l", "l">>,
       <<"R", "e", "n", "t">>,
       <<"U", "t", "i", "l", "i", "t", "i", "e", "s">>,
       <<"S", "u", "p", "p", "l", "i", "e", "s">>,
       <<"P", "A", "Y", "R", "O", "L", "L">>,
       <<"S", "A", "L", "A", "R", "Y">>,
       <<"W", "A", "G", "E">>,
       <<"R", "E", "N", "T", " ", "P", "A", "Y", "M", "E", "N", "T">>,
       <<"E", "L", "E", "C", "T", "R", "I", "C">>,
       <<"G", "A", "S">>,
       <<"W", "A", "T", "E", "R">>,
       <<"I", "N", "T", "E", "R", "N", "E", "T">> >>

transfers_out ==
    << <<"O", "n", "l", "i", "n", "e", " ", "T", "r", "a", "n", "s", "f", "e", "r", " ", "T", "o">>,
       <<"W", "i", "r", "e", " ", "T", "r", "a", "n", "s", "f", "e", "r", " ", "O", "u", "t">>,
       <<"T", "R", "A", "N", "S", "F", "E", "R", " ", "T", "O">>,
       <<"W", "I", "R", "E", " ", "O", "U", "T">>,
       <<"B", "O", "O", "K", " ", "T", "R", "A", "N", "S", "F", "E", "R">> >>

nsf_patterns ==
    << <<"N", "S", "F">>,
       <<"N", "o", "n", "-", "s", "u", "f", "f", "i", "c", "i", "e", "n", "t", " ", "f", "u", "n", "d", "s">>,
       <<"O", "v", "e", "r", "d", "r", "a", "f", "t">>,
       <<"R", "e", "t", "u", "r", "n", " ", "I", "t", "e", "m">>,
       <<"I", "n", "s", "u", "f", "f", "i", "c", "i", "e", "n", "t", " ", "F", "u", "n", "d", "s">>,
       <<"O", "D", " ", "F", "e", "e">>,
       <<"O", "V", "E", "R", "D", "R", "A", "F", "T", " ", "F", "E", "E">>,
       <<"R", "E", "T", "U", "R", "N", "E", "D", " ", "I", "T", "E", "M">>,
       <<"I", "N", "S", "U", "F", "F", "I", "C", "I", "E", "N", "T">> >>

TransactionClassifier ==
    [ credit_categories |-> [true_revenue |-> true_revenue,
                             non_true_revenue |-> non_true_revenue],
      debit_categories |-> [mca_payments |-> [patterns |-> mca_patterns],
                            operating_expenses |-> operating_expenses,
                            transfers_out |-> transfers_out],
      nsf_patterns |-> nsf_patterns ]

Categories ==
    {"TRUE_REVENUE", "NON_TRUE_REVENUE", "MCA_PAYMENT", "OPERATING_EXPENSE", "TRANSFER_OUT"}

None == <<>>

Some(v) == <<v>>

NoCategory == "None"

----------------------------------------------------------------------------
(* TransactionClassifier: the credit branch, the debit branch, the NSF     *)
(* override and the lender-name extraction.  self is the instance's tables, *)
(* desc the upper-cased description.                                       *)

AnyKeyword(table, desc) == \E i \in DOMAIN table : Contains(desc, Upper(table[i]))

(* The two lists tested in the other order *)
_classify_credit_revenue_first(self, transaction, desc) ==
    IF AnyKeyword(self.credit_categories.true_revenue, desc)
    THEN [transaction EXCEPT !.category = "TRUE_REVENUE", !.is_true_revenue = TRUE]
    ELSE IF AnyKeyword(self.credit_categories.non_true_revenue, desc)
    THEN [transaction EXCEPT !.category = "NON_TRUE_REVENUE", !.is_true_revenue = FALSE]
    ELSE [transaction EXCEPT !.category = "TRUE_REVENUE", !.is_true_revenue = TRUE]

_classify_credit(self, transaction, desc) ==
    IF AnyKeyword(self.credit_categories.non_true_revenue, desc)
    THEN [transaction EXCEPT !.category = "NON_TRUE_REVENUE", !.is_true_revenue = FALSE]
    ELSE IF AnyKeyword(self.credit_categories.true_revenue, desc)
    THEN [transaction EXCEPT !.category = "TRUE_REVENUE", !.is_true_revenue = TRUE]
    ELSE [transaction EXCEPT !.category = "TRUE_REVENUE", !.is_true_revenue = TRUE]

(* The first line of description that holds keyword kw, whole: what group 1 *)
(* of the first four extraction patterns is.                              *)
LineWith(description, kw) ==
    LET at == SetMin({i \in 1..Len(description) : OccursAt(description, kw, i)})
        before == {k \in 1..(at - 1) : description[k] = "\n"}
        after == {k \in at..Len(description) : description[k] = "\n"}
        b == IF before = {} THEN 1 ELSE SetMax(before) + 1
        e == IF after = {} THEN Len(description) ELSE SetMin(after) - 1
    IN  SubSeq(description, b, e)

OrigCoName == <<"O", "r", "i", "g", " ", "C", "O", " ", "N", "a", "m", "e">>

InNameClass(c) == IsLetter(c) \/ IsSpace(c)

(* Where group 1 of the fifth extraction pattern (the label, any colons    *)
(* and spaces, then letters and spaces, ignoring case) can start           *)
(* when the label is at i: the greedy [:\s]* gives back what it must.      *)
OrigGroupStarts(description, i) ==
    LET p == i + Len(OrigCoName)
        others == {k \in p..Len(description) :
                      description[k] # ":" /\ ~IsSpace(description[k])}
        q == IF others = {} THEN Len(description) + 1 ELSE SetMin(others)
    IN  {g \in p..q : g <= Len(description) /\ InNameClass(description[g])}

OrigGroup(description, i) ==
    LET g == SetMax(OrigGroupStarts(description, i))
        stops == {k \in g..Len(description) : ~InNameClass(description[k])}
        e == IF stops = {} THEN Len(description) ELSE SetMin(stops) - 1
    IN  SubSeq(description, g, e)

_extract_lender_name(description) ==
    LET kws == << <<"C", "A", "P", "I", "T", "A", "L">>,
                  <<"F", "I", "N", "A", "N", "C", "I", "A", "L">>,
                  <<"F", "U", "N", "D", "I", "N", "G">>,
                  <<"A", "D", "V", "A", "N", "C", "E">> >>
        u == Upper(description)
        hits == {n \in 1..4 : Contains(u, kws[n])}
        labels == {i \in 1..Len(description) :
                      /\ OccursAt(u, Upper(OrigCoName), i)
                      /\ OrigGroupStarts(description, i) # {}}
        words == Split(description)
    IN  IF hits # {}
        THEN Some(Strip(LineWith(u, kws[SetMin(hits)])))
        ELSE IF labels # {}
        THEN Some(Strip(OrigGroup(description, SetMin(labels))))
        ELSE IF Len(words) > 0
        THEN Some(Join(SubSeq(words, 1, IF Len(words) < 3 THEN Len(words) ELSE 3)))
        ELSE None

(* A guard against classifying a known MCA payment twice: the lender table *)
(* is skipped when the transaction is already flagged.                     *)
_classify_debit_skip_known(self, transaction, desc) ==
    IF /\ ~transaction.is_mca_payment
       /\ \E i \in DOMAIN self.debit_categories.mca_payments.patterns :
             RegexSearch(self.debit_categories.mca_payments.patterns[i], desc)
    THEN [transaction EXCEPT !.category = "MCA_PAYMENT",
                             !.is_mca_payment = TRUE,
                             !.mca_lender = _extract_lender_name(desc)]
    ELSE IF AnyKeyword(self.debit_categories.operating_expenses, desc)
    THEN [transaction EXCEPT !.category = "OPERATING_EXPENSE"]
    ELSE IF AnyKeyword(self.debit_categories.transfers_out, desc)
    THEN [transaction EXCEPT !.category = "TRANSFER_OUT"]
    ELSE [transaction EXCEPT !.category = "OPERATING_EXPENSE"]

(* The operating expenses tested before the lender signatures *)
_classify_debit_expenses_first(self, transaction, desc) ==
    IF AnyKeyword(self.debit_categories.operating_expenses, desc)
    THEN [transaction EXCEPT !.category = "OPERATING_EXPENSE"]
    ELSE IF \E i \in DOMAIN self.debit_categories.mca_payments.patterns :
               RegexSearch(self.debit_categories.mca_payments.patterns[i], desc)
    THEN [transaction EXCEPT !.category = "MCA_PAYMENT",
                             !.is_mca_payment = TRUE,
                             !.mca_lender = _extract_lender_name(desc)]
    ELSE IF AnyKeyword(self.debit_categories.transfers_out, desc)
    THEN [transaction EXCEPT !.category = "TRANSFER_OUT"]
    ELSE [transaction EXCEPT !.category = "OPERATING_EXPENSE"]

_classify_debit(self, transaction, desc) ==
    IF \E i \in DOMAIN self.debit_categories.mca_payments.patterns :
          RegexSearch(self.debit_categories.mca_payments.patterns[i], desc)
    THEN [transaction EXCEPT !.category = "MCA_PAYMENT",
                             !.is_mca_payment = TRUE,
                             !.mca_lender = _extract_lender_name(desc)]
    ELSE IF AnyKeyword(self.debit_categories.operating_expenses, desc)
    THEN [transaction EXCEPT !.category = "OPERATING_EXPENSE"]
    ELSE IF AnyKeyword(self.debit_categories.transfers_out, desc)
    THEN [transaction EXCEPT !.category = "TRANSFER_OUT"]
    ELSE [transaction EXCEPT !.category = "OPERATING_EXPENSE"]

(* The NSF test without its balance check *)
_is_nsf_transaction_no_balance(self, transaction, desc) ==
    \/ AnyKeyword(self.nsf_patterns, desc)
    \/ Contains(desc, <<"R", "E", "T", "U", "R", "N">>) /\ transaction.amount > 0

_is_nsf_transaction(self, transaction, desc) ==
    \/ AnyKeyword(self.nsf_patterns, desc)
    \/ transaction.balance < 0
    \/ Contains(desc, <<"R", "E", "T", "U", "R", "N">>) /\ transaction.amount > 0

classify_transaction(self, transaction) ==
    LET desc == Upper(transaction.description)
        branch == IF transaction.transaction_type = "CREDIT"
                  THEN _classify_credit(self, transaction, desc)
                  ELSE _classify_debit(self, transaction, desc)
    IN  IF _is_nsf_transaction(self, branch, desc)
        THEN [branch EXCEPT !.category = "NON_TRUE_REVENUE"]
        ELSE branch

----------------------------------------------------------------------------
(* A raw transaction, as ingestion creates it: nothing classified yet *)

RawTransaction(type, description, amount, balance, date) ==
    [ transaction_type |-> type, description |-> description, amount |-> amount,
      balance |-> balance, date |-> date, category |-> NoCategory,
      is_true_revenue |-> FALSE, is_mca_payment |-> FALSE, mca_lender |-> None ]

Date(month, weekday) == [month |-> month, weekday |-> weekday]

----------------------------------------------------------------------------
(* FraudDetector.  A ratio test  k / n > 0.3  is  10 * k > 3 * n  and       *)
(* amount > avg * 5  is  amount * n > 5 * sum : the arithmetic is exact,    *)
(* which the float arithmetic of the code is for whole-dollar amounts away  *)
(* from the rounding of a tie.                                             *)

RECURSIVE SumAmounts(_)
SumAmounts(ts) == IF ts = <<>> THEN 0 ELSE Head(ts).amount + SumAmounts(Tail(ts))

IsCredit(t) == t.transaction_type = "CREDIT"

Credits(transactions) == SelectSeq(transactions, IsCredit)

(* The round-number test over every transaction, the credit filter lost *)
_has_round_number_pattern_unfiltered(transactions) ==
    LET round_numbers ==
            Cardinality({i \in DOMAIN transactions : transactions[i].amount % 100 = 0})
    IN  IF Len(transactions) < 10 THEN FALSE
        ELSE 10 * round_numbers > 3 * Len(transactions)

_has_round_number_pattern(transactions) ==
    LET credits == Credits(transactions)
        round_numbers == Cardinality({i \in DOMAIN credits : credits[i].amount % 100 = 0})
    IN  IF Len(credits) < 10 THEN FALSE
        ELSE 10 * round_numbers > 3 * Len(credits)

_has_identical_deposits(transactions) ==
    LET credits == Credits(transactions)
        amount_counts(a) == Cardinality({i \in DOMAIN credits : credits[i].amount = a})
    IN  \E i \in DOMAIN credits : amount_counts(credits[i].amount) > 5

_has_unusual_timing(transactions) ==
    LET total_deposits ==
            Cardinality({i \in DOMAIN transactions : IsCredit(transactions[i])})
        weekend_deposits ==
            Cardinality({i \in DOMAIN transactions :
                            IsCredit(transactions[i]) /\ transactions[i].date.weekday >= 5})
    IN  IF total_deposits = 0 THEN FALSE
        ELSE 5 * weekend_deposits > total_deposits

(* The spike test without its floor of 20 credits *)
_has_pattern_breaks_any_size(transactions) ==
    LET credits == Credits(transactions)
    IN  IF Len(credits) = 0 THEN FALSE
        ELSE \E i \in DOMAIN credits :
                credits[i].amount * Len(credits) > 5 * SumAmounts(credits)

_has_pattern_breaks(transactions) ==
    LET credits == Credits(transactions)
    IN  IF Len(credits) < 20 THEN FALSE
        ELSE \E i \in DOMAIN credits :
                credits[i].amount * Len(credits) > 5 * SumAmounts(credits)

RoundLabel == <<"Round number deposits">>

IdenticalLabel == <<"Repeated identical amounts">>

TimingLabel == <<"Unusual deposit timing">>

PatternLabel == <<"Inconsistent patterns">>

Min(a, b) == IF a < b THEN a ELSE b

Max(a, b) == IF a > b THEN a ELSE b

(* The scorer with the points of the first two checks exchanged *)
calculate_thumbprint_score_swapped(transactions) ==
    LET round == _has_round_number_pattern(transactions)
        identical == _has_identical_deposits(transactions)
        timing == _has_unusual_timing(transactions)
        breaks == _has_pattern_breaks(transactions)
        score == (IF round THEN 200 ELSE 0) + (IF identical THEN 150 ELSE 0)
                 + (IF timing THEN 100 ELSE 0) + (IF breaks THEN 100 ELSE 0)
        factors == (IF round THEN RoundLabel ELSE <<>>)
                   \o (IF identical THEN IdenticalLabel ELSE <<>>)
                   \o (IF timing THEN TimingLabel ELSE <<>>)
                   \o (IF breaks THEN PatternLabel ELSE <<>>)
    IN  [score |-> Min(score, 1000), factors |-> factors]

calculate_thumbprint_score(transactions) ==
    LET round == _has_round_number_pattern(transactions)
        identical == _has_identical_deposits(transactions)
        timing == _has_unusual_timing(transactions)
        breaks == _has_pattern_breaks(transactions)
        score == (IF round THEN 150 ELSE 0) + (IF identical THEN 200 ELSE 0)
                 + (IF timing THEN 100 ELSE 0) + (IF breaks THEN 100 ELSE 0)
        factors == (IF round THEN RoundLabel ELSE <<>>)
                   \o (IF identical THEN IdenticalLabel ELSE <<>>)
                   \o (IF timing THEN TimingLabel ELSE <<>>)
                   \o (IF breaks THEN PatternLabel ELSE <<>>)
    IN  [score |-> Min(score, 1000), factors |-> factors]

----------------------------------------------------------------------------
(* MoneyThumbSystem._calculate_final_confidence.  Confidences are in       *)
(* hundredths: 0.3 is 30, and the clamp is to 0..100.  The sums are exact;  *)
(* the code's floats differ from them by rounding in the last place only.  *)

DistinctCategories(transactions) ==
    {transactions[i].category : i \in DOMAIN transactions} \ {NoCategory}

(* Both fraud tiers applied: the elif read as a second if *)
_calculate_final_confidence_both_tiers(base_confidence, transactions, fraud_score) ==
    LET c1 == base_confidence - (IF fraud_score > 500 THEN 30 ELSE 0)
        c2 == c1 - (IF fraud_score > 200 THEN 10 ELSE 0)
        c3 == c2 - (IF Len(transactions) < 20 THEN 20 ELSE 0)
        c4 == c3 + (IF Cardinality(DistinctCategories(transactions)) >= 3 THEN 10 ELSE 0)
    IN  Max(0, Min(100, c4))

_calculate_final_confidence(base_confidence, transactions, fraud_score) ==
    LET c1 == IF fraud_score > 500 THEN base_confidence - 30
              ELSE IF fraud_score > 200 THEN base_confidence - 10
              ELSE base_confidence
        c2 == IF Len(transactions) < 20 THEN c1 - 20 ELSE c1
        c3 == IF Cardinality(DistinctCategories(transactions)) >= 3 THEN c2 + 10 ELSE c2
    IN  Max(0, Min(100, c3))

----------------------------------------------------------------------------
(* The collaborators of the controller: MCA detection, the monthly and the  *)
(* metrics calculators and the cash-flow analyzer, each a function of its   *)
(* arguments.                                                              *)

RECURSIVE Sorted(_)
Sorted(S) == IF S = {} THEN <<>> ELSE <<SetMin(S)>> \o Sorted(S \ {SetMin(S)})

RECURSIVE Sum(_)
Sum(xs) == IF xs = <<>> THEN 0 ELSE Head(xs) + Sum(Tail(xs))

(* One position for each lender, in the order the lenders first appear *)
detect_positions(transactions) ==
    LET IsPayment(t) == t.is_mca_payment
        payments == SelectSeq(transactions, IsPayment)
        firsts == Sorted({SetMin({j \in DOMAIN payments :
                                     payments[j].mca_lender = payments[i].mca_lender}) :
                          i \in DOMAIN payments})
    IN  [k \in DOMAIN firsts |->
            [ lender_name |-> payments[firsts[k]].mca_lender,
              daily_payment |-> Max(payments[firsts[k]].amount, 0 - payments[firsts[k]].amount),
              position_number |-> k ]]

calculate_monthly_stats(transactions, month) ==
    LET InMonth(t) == t.date.month = month
        Deposit(t) == InMonth(t) /\ IsCredit(t)
        Revenue(t) == InMonth(t) /\ t.is_true_revenue
        Negative(t) == InMonth(t) /\ t.balance < 0
        ofMonth == SelectSeq(transactions, InMonth)
    IN  [ month |-> month,
          total_deposits |-> SumAmounts(SelectSeq(transactions, Deposit)),
          true_revenue |-> SumAmounts(SelectSeq(transactions, Revenue)),
          ending_balance |-> ofMonth[Len(ofMonth)].balance,
          days_negative |-> Len(SelectSeq(transactions, Negative)) ]

(* The metrics object as the calculator builds it: its fraud_score is the  *)
(* controller's to set.                                                    *)
calculate_metrics(monthly_summaries, transactions, mca_positions) ==
    [ average_monthly_revenue |->
          Sum([i \in DOMAIN monthly_summaries |-> monthly_summaries[i].true_revenue])
              \div Max(1, Len(monthly_summaries)),
      revenue_stability |-> 0,
      days_cash_on_hand |-> 0,
      mca_payment_ratio |-> 0,
      deposit_frequency |-> Len(Credits(transactions)),
      nsf_rate |-> 0,
      negative_day_rate |-> 0,
      fraud_score |-> 0 ]

EmptyMonthData ==
    [ all_deposits |-> <<>>, all_withdrawals |-> <<>>, true_revenue |-> 0,
      operating_expenses |-> 0, mca_payments |-> <<>> ]

analyze_monthly_cashflow(month_data) ==
    [ gross_cash_in |-> Sum(month_data.all_deposits),
      gross_cash_out |-> Sum(month_data.all_withdrawals),
      net_cash_flow |-> Sum(month_data.all_deposits) - Sum(month_data.all_withdrawals),
      true_cash_flow |-> month_data.true_revenue - month_data.operating_expenses,
      mca_burden |-> Sum(month_data.mca_payments),
      free_cash_flow |-> month_data.true_revenue - month_data.operating_expenses
                         - Sum(month_data.mca_payments) ]

----------------------------------------------------------------------------
(* MoneyThumbSystem: the helpers of process_bank_statement *)

_calculate_monthly_summaries(transactions) ==
    IF transactions = <<>> THEN <<>>
    ELSE LET months == Sorted({transactions[i].date.month : i \in DOMAIN transactions})
         IN  [k \in DOMAIN months |-> calculate_monthly_stats(transactions, months[k])]

(* 70 percent of the revenue, in whole dollars, rounded down *)
_calculate_overall_cashflow(monthly_summaries, mca_positions) ==
    IF monthly_summaries = <<>> THEN analyze_monthly_cashflow(EmptyMonthData)
    ELSE LET total_deposits ==
                 Sum([i \in DOMAIN monthly_summaries |-> monthly_summaries[i].total_deposits])
             total_true_revenue ==
                 Sum([i \in DOMAIN monthly_summaries |-> monthly_summaries[i].true_revenue])
             expenses == (total_true_revenue * 7) \div 10
             monthly_mca_payments ==
                 [i \in DOMAIN mca_positions |-> mca_positions[i].daily_payment * 20]
         IN  analyze_monthly_cashflow(
                 [ all_deposits |-> <<total_deposits>>,
                   all_withdrawals |-> <<expenses>>,
                   true_revenue |-> total_true_revenue,
                   operating_expenses |-> expenses,
                   mca_payments |-> monthly_mca_payments ])

MoneyThumbResponse(account, transactions, monthly_summaries, mca_positions, metrics, cash_flow, confidence_score, processing_time) ==
    [ account |-> account, transactions |-> transactions,
      monthly_summaries |-> monthly_summaries, mca_positions |-> mca_positions,
      metrics |-> metrics, cash_flow |-> cash_flow,
      confidence_score |-> confidence_score, processing_time |-> processing_time ]

(* The empty response with a full confidence in place of 0.0 *)
_empty_response_confident(account, processing_time) ==
    MoneyThumbResponse(account, <<>>, <<>>, <<>>,
        [ average_monthly_revenue |-> 0, revenue_stability |-> 0, days_cash_on_hand |-> 0,
          mca_payment_ratio |-> 0, deposit_frequency |-> 0, nsf_rate |-> 0,
          negative_day_rate |-> 0, fraud_score |-> 0 ],
        [ gross_cash_in |-> 0, gross_cash_out |-> 0, net_cash_flow |-> 0,
          true_cash_flow |-> 0, mca_burden |-> 0, free_cash_flow |-> 0 ],
        100, processing_time)

_empty_response(account, processing_time) ==
    MoneyThumbResponse(account, <<>>, <<>>, <<>>,
        [ average_monthly_revenue |-> 0, revenue_stability |-> 0, days_cash_on_hand |-> 0,
          mca_payment_ratio |-> 0, deposit_frequency |-> 0, nsf_rate |-> 0,
          negative_day_rate |-> 0, fraud_score |-> 0 ],
        [ gross_cash_in |-> 0, gross_cash_out |-> 0, net_cash_flow |-> 0,
          true_cash_flow |-> 0, mca_burden |-> 0, free_cash_flow |-> 0 ],
        0, processing_time)

(* The injection left out: the metrics keep the score they were built with *)
InjectedMetricsForgotten(metrics, fraud_score) == metrics

(* metrics.fraud_score = fraud_score *)
InjectedMetrics(metrics, fraud_score) == [metrics EXCEPT !.fraud_score = fraud_score]

(* What follows the last star of the masked account number *)
LastField(s, sep) ==
    LET seps == {i \in 1..Len(s) : s[i] = sep}
    IN  IF seps = {} THEN s ELSE SubSeq(s, SetMax(seps) + 1, Len(s))

generate_json_report(response) ==
    [ account |->
          [ bank |-> response.account.bank_name,
            account_last4 |-> LastField(response.account.account_number, "*"),
            statement_period |-> [start |-> response.account.statement_start,
                                  end |-> response.account.statement_end] ],
      metrics |->
          [ average_monthly_revenue |-> response.metrics.average_monthly_revenue,
            true_revenue_total |->
                Sum([i \in DOMAIN response.monthly_summaries |->
                        response.monthly_summaries[i].true_revenue]),
            gross_deposits |->
                Sum([i \in DOMAIN response.monthly_summaries |->
                        response.monthly_summaries[i].total_deposits]),
            mca_positions_detected |-> Len(response.mca_positions),
            total_mca_payments |->
                Sum([i \in DOMAIN response.mca_positions |->
                        response.mca_positions[i].daily_payment * 20]),
            days_negative |->
                Sum([i \in DOMAIN response.monthly_summaries |->
                        response.monthly_summaries[i].days_negative]),
            nsf_count |->
                Cardinality({i \in DOMAIN response.transactions :
                                Contains(Upper(response.transactions[i].description),
                                         <<"N", "S", "F">>)}),
            fraud_score |-> response.metrics.fraud_score ],
      mca_positions |->
          [i \in DOMAIN response.mca_positions |->
              [ lender |-> response.mca_positions[i].lender_name,
                daily_payment |-> response.mca_positions[i].daily_payment,
                position |-> response.mca_positions[i].position_number ]],
      monthly_summary |->
          [i \in DOMAIN response.monthly_summaries |->
              [ month |-> response.monthly_summaries[i].month,
                true_revenue |-> response.monthly_summaries[i].true_revenue,
                gross_deposits |-> response.monthly_summaries[i].total_deposits,
                ending_balance |-> response.monthly_summaries[i].ending_balance,
                days_negative |-> response.monthly_summaries[i].days_negative ]],
      confidence_score |-> response.confidence_score,
      processing_time |-> response.processing_time ]

(* The eight stages of process_bank_statement, in the order of its text *)
StageOrder ==
    <<"ingest", "classify", "detect_mca", "monthly", "metrics", "fraud", "cash_flow", "confidence">>

(* Where control is after a step of a non-empty run: the stages in order,  *)
(* the injection of the score after the scoring, the response last.        *)
AfterStage(at) ==
    CASE at = "ingest" -> "classify"
      [] at = "classify" -> "detect_mca"
      [] at = "detect_mca" -> "monthly"
      [] at = "monthly" -> "metrics"
      [] at = "metrics" -> "fraud"
      [] at = "fraud" -> "inject"
      [] at = "inject" -> "cash_flow"
      [] at = "cash_flow" -> "confidence"
      [] at = "confidence" -> "respond"
      [] at = "respond" -> "returned"

(* An exception swallowed: the run goes on with the next stage *)
OnExceptionContinue(at) == AfterStage(at)

(* process_bank_statement catches nothing: an exception of a stage leaves  *)
(* it, to the handler of the request.                                      *)
OnException(at) == "raised"

(* The classifier keeps the description of each NSF item it meets as a new *)
(* NSF keyword.                                                            *)
SelfAfterClassifyLearning(self, transaction) ==
    IF _is_nsf_transaction(self, transaction, Upper(transaction.description))
    THEN [self EXCEPT !.nsf_patterns = Append(@, transaction.description)]
    ELSE self

(* The instance after classify_transaction: no attribute of self is        *)
(* assigned, the tables are only read.                                     *)
SelfAfterClassify(self, transaction) == self

(* The loop of process_bank_statement: each transaction classified and    *)
(* appended, in the order of the list.                                     *)
RECURSIVE ClassifiedInTurn(_, _)

ClassifiedInTurn(self, raw_transactions) ==
    IF raw_transactions = <<>>
    THEN <<>>
    ELSE <<classify_transaction(self, Head(raw_transactions))>>
             \o ClassifiedInTurn(self, Tail(raw_transactions))

(* The whole of process_bank_statement on one document, run alone *)
process_bank_statement(self, document, processing_time) ==
    IF document.transactions = <<>>
    THEN _empty_response(document.account, processing_time)
    ELSE LET classified_transactions == ClassifiedInTurn(self, document.transactions)
             mca_positions == detect_positions(classified_transactions)
             monthly_summaries == _calculate_monthly_summaries(classified_transactions)
             built == calculate_metrics(monthly_summaries, classified_transactions, mca_positions)
             fraud == calculate_thumbprint_score(classified_transactions)
             metrics == InjectedMetrics(built, fraud.score)
             cash_flow == _calculate_overall_cashflow(monthly_summaries, mca_positions)
             final_confidence ==
                 _calculate_final_confidence(document.confidence_score,
                                             classified_transactions, fraud.score)
         IN  MoneyThumbResponse(document.account, classified_transactions, monthly_summaries,
                                mca_positions, metrics, cash_flow, final_confidence,
                                processing_time)

(* FraudDetector.__init__ *)
FraudDetector ==
    [ fraud_indicators |->
        [ round_numbers |-> "Multiple deposits of exact round amounts",
          identical_deposits |-> "Repeated identical deposit amounts",
          unusual_timing |-> "Deposits at unusual hours",
          new_sources |-> "Sudden new deposit sources",
          pattern_breaks |-> "Break in established patterns" ] ]

----------------------------------------------------------------------------
(* The inputs the transactions are drawn from *)

Descriptions ==
    { <<"A", "C", "H", " ", "C", "R", "E", "D", "I", "T", " ", "F", "R", "O", "M", " ", "C", "U", "S", "T", "O", "M", "E", "R">>,
       <<"W", "O", "R", "K", "I", "N", "G", " ", "C", "A", "P", "I", "T", "A", "L", " ", "D", "A", "I", "L", "Y", " ", "A", "C", "H", " ", "P", "M", "T">>,
       <<"O", "V", "E", "R", "D", "R", "A", "F", "T", " ", "F", "E", "E">>,
       <<"L", "o", "a", "n", " ", "D", "e", "p", "o", "s", "i", "t">>,
       <<"W", "i", "r", "e", " ", "T", "r", "a", "n", "s", "f", "e", "r">>,
       <<"d", "e", "p", "o", "s", "i", "t">>,
       <<"R", "E", "T", "U", "R", "N">>,
       <<"V", "E", "G", "A", "S", " ", "T", "R", "I", "P">>,
       <<"K", "A", "B", "B", "A", "G", "E">>,
       <<"d", "a", "i", "l", "y", " ", "a", "c", "h">>,
       <<"O", "r", "i", "g", " ", "C", "O", " ", "N", "a", "m", "e", ":", " ", "A", "c", "m", "e", " ", "F", "i", "n", "a", "n", "c", "i", "a", "l">>,
       <<"O", "R", "I", "G", " ", "C", "O", " ", "N", "A", "M", "E", ":", " ", "O", "N", "D", "E", "C", "K", " ", "X", "9">>,
       <<"O", "N", "D", "E", "C", "K", " ", "O", "R", "I", "G", " ", "C", "O", " ", "N", "A", "M", "E", ":", " ">>,
       <<>>,
       <<"W", "I", "R", "E", " ", "O", "U", "T">>,
       <<"B", "O", "O", "K", " ", "T", "R", "A", "N", "S", "F", "E", "R">>,
       <<"P", "a", "y", "r", "o", "l", "l">>,
       <<"C", "O", "F", "F", "E", "E">>,
       <<"C", "A", "P", "I", "T", "A", "L", " ", "M", "E", "R", "C", "H", "A", "N", "T">>,
       <<"D", "A", "I", "L", "Y", "\n", "A", "C", "H">>,
       <<" ", "R", "a", "p", "i", "d", " ", "A", "d", "v", "a", "n", "c", "e", " ">>,
       <<"A", " ", "B", " ", "C", " ", "O", "N", "D", "E", "C", "K">>,
       <<"K", "A", "B", "B", "A", "G", "E", " ", "P", "A", "Y", "R", "O", "L", "L">>,
       <<"P", "A", "Y", "R", "O", "L", "L", " ", "W", "I", "R", "E", " ", "O", "U", "T">> }

Amounts == {-300, 0, 500}

Balances == {-35, 0, 1500}

MaxCalls == 2

(* The transactions a statement is made of, for the fraud scorer: a round  *)
(* weekday deposit, the same on a Saturday, a small deposit, a spike, and a *)
(* withdrawal.  A statement holds up to MaxRun of each of the first three.  *)
RoundDeposit == RawTransaction("CREDIT", <<"d", "e", "p", "o", "s", "i", "t">>, 1000, 1500, Date(1, 2))

WeekendDeposit == RawTransaction("CREDIT", <<"d", "e", "p", "o", "s", "i", "t">>, 1000, 1500, Date(1, 5))

SmallDeposit == RawTransaction("CREDIT", <<"C", "O", "F", "F", "E", "E">>, 55, 1500, Date(2, 1))

SpikeDeposit == RawTransaction("CREDIT", <<"W", "I", "R", "E", " ", "O", "U", "T">>, 90050, 1500, Date(2, 3))

Withdrawal == RawTransaction("DEBIT", <<"K", "A", "B", "B", "A", "G", "E">>, -35, 1500, Date(1, 6))

Copies(t, n) == [i \in 1..n |-> t]

MaxRun == 7

MaxSpike == 1

MaxDebit == 1

MaxAdd == 4

Statements ==
    { Copies(RoundDeposit, r) \o Copies(WeekendDeposit, w) \o Copies(SmallDeposit, s)
        \o Copies(SpikeDeposit, k) \o Copies(Withdrawal, d) :
      r \in 0..MaxRun, w \in 0..MaxRun, s \in 0..MaxRun, k \in 0..MaxSpike, d \in 0..MaxDebit }

Extensions ==
    { Copies(t, n) : t \in {RoundDeposit, WeekendDeposit, SmallDeposit, SpikeDeposit, Withdrawal},
                     n \in 1..MaxAdd }

(* Inputs of the confidence blend: the base confidence, the fraud score    *)
(* and a list of n transactions whose categories cycle through a palette.  *)
BaseConfidences == {-20, 0, 5, 15, 25, 50, 95, 100, 130}

FraudScores == {0, 200, 201, 350, 500, 501, 550, 1000}

Palettes ==
    { <<"TRUE_REVENUE">>,
      <<"TRUE_REVENUE", "MCA_PAYMENT">>,
      <<NoCategory, "TRUE_REVENUE", "NON_TRUE_REVENUE">>,
      <<"TRUE_REVENUE", "MCA_PAYMENT", "OPERATING_EXPENSE">>,
      <<"TRUE_REVENUE", "NON_TRUE_REVENUE", "MCA_PAYMENT", "OPERATING_EXPENSE", "TRANSFER_OUT">> }

MaxConfTxns == 21

Cycled(palette, n) ==
    [i \in 1..n |-> [RoundDeposit EXCEPT !.category = palette[((i - 1) % Len(palette)) + 1]]]

(* The documents of the pipeline: an account, the transactions ingestion   *)
(* finds and its confidence.  A request names the upload, the document and  *)
(* the step of its run that raises an exception, if one does.              *)
OverdraftFee == RawTransaction("DEBIT", <<"O", "V", "E", "R", "D", "R", "A", "F", "T", " ", "F", "E", "E">>, -35, -35, Date(2, 4))

OverdrawnDeposit == RawTransaction("CREDIT", <<"d", "e", "p", "o", "s", "i", "t">>, 1000, -35, Date(1, 2))

TheAccount ==
    [ bank_name |-> "Chase", account_number |-> <<"*", "*", "*", "*", "1", "2", "3", "4">>,
      statement_start |-> 1, statement_end |-> 2 ]

Document(transactions, confidence_score) ==
    [account |-> TheAccount, transactions |-> transactions, confidence_score |-> confidence_score]

PipelineStatements ==
    { Copies(RoundDeposit, r) \o Copies(WeekendDeposit, w) \o Copies(SmallDeposit, s)
        \o Copies(SpikeDeposit, k) \o Copies(Withdrawal, d) \o Copies(OverdraftFee, d) :
      r \in {0, MaxRun}, w \in {0, MaxRun}, s \in {0, MaxRun},
      k \in {0, MaxSpike}, d \in {0, MaxDebit} }

Faults ==
    {"none", "ingest", "classify", "detect_mca", "monthly", "metrics", "fraud",
     "cash_flow", "confidence", "report"}

NoRequest == [upload |-> "none", document |-> Document(<<>>, 0), fault |-> "none"]

BadUploads ==
    { [upload |-> u, document |-> Document(<<>>, 0), fault |-> "none"] :
      u \in {"missing", "unnamed"} }

Requests ==
    { [upload |-> "ok", document |-> Document(ts, c), fault |-> f] :
      ts \in PipelineStatements, c \in {50, 100}, f \in Faults } \cup BadUploads

ConcurrentRequests ==
    { [upload |-> "ok", document |-> Document(<<OverdrawnDeposit, Withdrawal>>, 90), fault |-> "none"],
      [upload |-> "ok", document |-> Document(<<RoundDeposit>>, 90), fault |-> "metrics"],
      [upload |-> "ok", document |-> Document(<<OverdraftFee>>, 90), fault |-> "report"] }

Durations == {1, 2}

NumRuns == 2

Runs == 1..NumRuns

VARIABLES classifier, fraud_detector,
          transaction, calls, first, cpc, written,
          statement, extension, scored, scored_ext,
          conf_in, conf_out,
          request, alone, pc, frame, response, reply, ran, failed, fraud_writes

sharedVars == <<classifier, fraud_detector>>

classifyVars == <<transaction, calls, first, cpc, written>>

fraudVars == <<statement, extension, scored, scored_ext>>

confVars == <<conf_in, conf_out>>

pipeVars == <<request, alone, pc, frame, response, reply, ran, failed, fraud_writes>>

vars == <<sharedVars, classifyVars, fraudVars, confVars, pipeVars>>

(* MoneyThumbSystem.__init__: the one instance of the module *)
InitShared ==
    /\ classifier = TransactionClassifier
    /\ fraud_detector = FraudDetector

(* The locals of process_bank_statement before its first statement *)
NoFrame ==
    [ account |-> None, raw_transactions |-> <<>>, base_confidence |-> None,
      classified_transactions |-> <<>>, mca_positions |-> <<>>, monthly_summaries |-> <<>>,
      metrics |-> None, fraud_score |-> None, fraud_factors |-> <<>>,
      cash_flow |-> None, final_confidence |-> None ]

(* alone is what process_bank_statement returns for the document of each   *)
(* request on a fresh instance with no other run and nothing raised, its   *)
(* processing time put to zero: the reference the interleaved runs are     *)
(* compared with.  No action changes it.                                   *)
InitPipeline(requests) ==
    /\ request = requests
    /\ alone = [r \in Runs |->
                  process_bank_statement(TransactionClassifier, requests[r].document, 0)]
    /\ pc = [r \in Runs |-> IF requests[r].upload = "none" THEN "off" ELSE "received"]
    /\ frame = [r \in Runs |-> NoFrame]
    /\ response = [r \in Runs |-> None]
    /\ reply = [r \in Runs |-> None]
    /\ ran = [r \in Runs |-> <<>>]
    /\ failed = [r \in Runs |-> "none"]
    /\ fraud_writes = [r \in Runs |-> 0]

IdlePipeline == InitPipeline([r \in Runs |-> NoRequest])

IdleConfidence ==
    /\ conf_in = [base_confidence |-> 0, transactions |-> <<>>, fraud_score |-> 0]
    /\ conf_out = None

(* How many times each mutable attribute of the transaction was assigned *)
NothingWritten ==
    [category |-> 0, is_true_revenue |-> 0, is_mca_payment |-> 0, mca_lender |-> 0]

IdleClassify ==
    /\ transaction = RawTransaction("CREDIT", <<>>, 0, 0, Date(1, 0))
    /\ calls = 0
    /\ first = None
    /\ cpc = "off"
    /\ written = NothingWritten

IdleFraud ==
    /\ statement = <<>>
    /\ extension = <<>>
    /\ scored = None
    /\ scored_ext = None

----------------------------------------------------------------------------
(* classify_transaction applied to one transaction, and again to its result *)

InitClassify ==
    /\ InitShared
    /\ IdlePipeline
    /\ \E type \in {"CREDIT", "DEBIT"}, d \in Descriptions, a \in Amounts, b \in Balances :
          transaction = RawTransaction(type, d, a, b, Date(1, 0))
    /\ calls = 0
    /\ first = None
    /\ cpc = "off"
    /\ written = NothingWritten
    /\ IdleFraud
    /\ IdleConfidence

Classify ==
    /\ calls < MaxCalls
    /\ transaction' = classify_transaction(classifier, transaction)
    /\ calls' = calls + 1
    /\ first' = IF calls = 0 THEN Some(transaction') ELSE first
    /\ UNCHANGED <<sharedVars, pipeVars,fraudVars, confVars, cpc, written>>

NextClassify == Classify

SpecClassify == InitClassify /\ [][NextClassify]_vars

----------------------------------------------------------------------------
(* One call of classify_transaction on a raw transaction, statement by      *)
(* statement: the branch, then the NSF test and its assignment.  written    *)
(* counts the assignments to each attribute.                                *)

(* The attributes the branch of the call assigns *)
AssignedByBranch(self, t, desc) ==
    IF t.transaction_type = "CREDIT"
    THEN {"category", "is_true_revenue"}
    ELSE IF \E i \in DOMAIN self.debit_categories.mca_payments.patterns :
               RegexSearch(self.debit_categories.mca_payments.patterns[i], desc)
    THEN {"category", "is_mca_payment", "mca_lender"}
    ELSE {"category"}

Counted(counts, attributes) ==
    [a \in DOMAIN counts |-> IF a \in attributes THEN counts[a] + 1 ELSE counts[a]]

InitClassifyWrites ==
    /\ InitShared
    /\ IdlePipeline
    /\ \E type \in {"CREDIT", "DEBIT"}, d \in Descriptions, a \in Amounts, b \in Balances :
          transaction = RawTransaction(type, d, a, b, Date(1, 0))
    /\ calls = 0
    /\ first = None
    /\ cpc = "branch"
    /\ written = NothingWritten
    /\ IdleFraud
    /\ IdleConfidence

ClassifyBranch ==
    /\ cpc = "branch"
    /\ LET desc == Upper(transaction.description)
       IN  /\ transaction' = IF transaction.transaction_type = "CREDIT"
                             THEN _classify_credit(classifier, transaction, desc)
                             ELSE _classify_debit(classifier, transaction, desc)
           /\ written' = Counted(written, AssignedByBranch(classifier, transaction, desc))
    /\ cpc' = "nsf"
    /\ UNCHANGED <<sharedVars, pipeVars, fraudVars, confVars, calls, first>>

NsfOverride ==
    /\ cpc = "nsf"
    /\ IF _is_nsf_transaction(classifier, transaction, Upper(transaction.description))
       THEN /\ transaction' = [transaction EXCEPT !.category = "NON_TRUE_REVENUE"]
            /\ written' = Counted(written, {"category"})
       ELSE UNCHANGED <<transaction, written>>
    /\ cpc' = "returned"
    /\ calls' = calls + 1
    /\ first' = Some(transaction')
    /\ UNCHANGED <<sharedVars, pipeVars, fraudVars, confVars>>

NextClassifyWrites == ClassifyBranch \/ NsfOverride

SpecClassifyWrites == InitClassifyWrites /\ [][NextClassifyWrites]_vars

----------------------------------------------------------------------------
(* calculate_thumbprint_score applied to a statement, and to the statement  *)
(* with transactions added                                                  *)

InitFraud ==
    /\ InitShared
    /\ IdlePipeline
    /\ IdleClassify
    /\ statement \in Statements
    /\ extension = <<>>
    /\ scored = None
    /\ scored_ext = None
    /\ IdleConfidence

Score ==
    /\ scored = None
    /\ scored' = Some(calculate_thumbprint_score(statement))
    /\ UNCHANGED <<sharedVars, pipeVars,classifyVars, confVars, statement, extension, scored_ext>>

ScoreExtended ==
    /\ scored # None
    /\ scored_ext = None
    /\ \E added \in Extensions :
          /\ extension' = added
          /\ scored_ext' = Some(calculate_thumbprint_score(statement \o added))
    /\ UNCHANGED <<sharedVars, pipeVars,classifyVars, confVars, statement, scored>>

NextFraud == Score \/ ScoreExtended

SpecFraud == InitFraud /\ [][NextFraud]_vars

----------------------------------------------------------------------------
(* _calculate_final_confidence applied to its three arguments *)

InitConfidence ==
    /\ InitShared
    /\ IdlePipeline
    /\ IdleClassify
    /\ IdleFraud
    /\ \E b \in BaseConfidences, f \in FraudScores, palette \in Palettes, n \in 0..MaxConfTxns :
          conf_in = [base_confidence |-> b, transactions |-> Cycled(palette, n), fraud_score |-> f]
    /\ conf_out = None

Blend ==
    /\ conf_out = None
    /\ conf_out' = Some(_calculate_final_confidence(
                            conf_in.base_confidence, conf_in.transactions, conf_in.fraud_score))
    /\ UNCHANGED <<sharedVars, pipeVars,classifyVars, fraudVars, conf_in>>

NextConfidence == Blend

SpecConfidence == InitConfidence /\ [][NextConfidence]_vars

----------------------------------------------------------------------------
(* The /process handler of api.py around process_bank_statement of core.py: *)
(* a run for each request, a step for each statement of the run.  The runs  *)
(* share the module's one MoneyThumbSystem; frame holds the locals of each. *)

harnessVars == <<classifyVars, fraudVars, confVars>>

Receive(r) ==
    /\ pc[r] = "received"
    /\ IF request[r].upload = "ok"
       THEN /\ pc' = [pc EXCEPT ![r] = "ingest"]
            /\ UNCHANGED reply
       ELSE /\ pc' = [pc EXCEPT ![r] = "replied"]
            /\ reply' = [reply EXCEPT ![r] =
                            Some([ status |-> 400,
                                   body |-> [error |-> IF request[r].upload = "missing"
                                                       THEN "No file provided"
                                                       ELSE "No file selected"] ])]
    /\ UNCHANGED <<sharedVars, harnessVars, request, alone, frame, response, ran, failed, fraud_writes>>

Ingest(r) ==
    /\ pc[r] = "ingest"
    /\ request[r].fault # "ingest"
    /\ LET document == request[r].document
       IN  /\ frame' = [frame EXCEPT ![r].account = Some(document.account),
                                     ![r].raw_transactions = document.transactions,
                                     ![r].base_confidence = Some(document.confidence_score)]
           /\ ran' = [ran EXCEPT ![r] = Append(@, "ingest")]
           /\ IF document.transactions = <<>>
              THEN \E processing_time \in Durations :
                      /\ response' = [response EXCEPT ![r] =
                                         Some(_empty_response(document.account, processing_time))]
                      /\ pc' = [pc EXCEPT ![r] = "returned"]
              ELSE /\ pc' = [pc EXCEPT ![r] = AfterStage("ingest")]
                   /\ UNCHANGED response
    /\ UNCHANGED <<sharedVars, harnessVars, request, alone, reply, failed, fraud_writes>>

(* One turn of the loop: the transaction is classified in place and taken  *)
(* into the list.                                                          *)
ClassifyNext(r) ==
    /\ pc[r] = "classify"
    /\ request[r].fault # "classify"
    /\ LET i == Len(frame[r].classified_transactions) + 1
           classified_transaction ==
               classify_transaction(classifier, frame[r].raw_transactions[i])
       IN  /\ frame' = [frame EXCEPT ![r].classified_transactions =
                                         Append(@, classified_transaction),
                                     ![r].raw_transactions[i] = classified_transaction]
           /\ classifier' = SelfAfterClassify(classifier, frame[r].raw_transactions[i])
           /\ ran' = [ran EXCEPT ![r] = IF i = 1 THEN Append(@, "classify") ELSE @]
           /\ pc' = [pc EXCEPT ![r] = IF i = Len(frame[r].raw_transactions)
                                      THEN AfterStage("classify") ELSE "classify"]
    /\ UNCHANGED <<fraud_detector, harnessVars, request, alone, response, reply, failed, fraud_writes>>

DetectMca(r) ==
    /\ pc[r] = "detect_mca"
    /\ request[r].fault # "detect_mca"
    /\ frame' = [frame EXCEPT ![r].mca_positions =
                                  detect_positions(frame[r].classified_transactions)]
    /\ ran' = [ran EXCEPT ![r] = Append(@, "detect_mca")]
    /\ pc' = [pc EXCEPT ![r] = AfterStage("detect_mca")]
    /\ UNCHANGED <<sharedVars, harnessVars, request, alone, response, reply, failed, fraud_writes>>

Monthly(r) ==
    /\ pc[r] = "monthly"
    /\ request[r].fault # "monthly"
    /\ frame' = [frame EXCEPT ![r].monthly_summaries =
                                  _calculate_monthly_summaries(frame[r].classified_transactions)]
    /\ ran' = [ran EXCEPT ![r] = Append(@, "monthly")]
    /\ pc' = [pc EXCEPT ![r] = AfterStage("monthly")]
    /\ UNCHANGED <<sharedVars, harnessVars, request, alone, response, reply, failed, fraud_writes>>

Metrics(r) ==
    /\ pc[r] = "metrics"
    /\ request[r].fault # "metrics"
    /\ frame' = [frame EXCEPT ![r].metrics =
                                  Some(calculate_metrics(frame[r].monthly_summaries,
                                                         frame[r].classified_transactions,
                                                         frame[r].mca_positions))]
    /\ ran' = [ran EXCEPT ![r] = Append(@, "metrics")]
    /\ pc' = [pc EXCEPT ![r] = AfterStage("metrics")]
    /\ UNCHANGED <<sharedVars, harnessVars, request, alone, response, reply, failed, fraud_writes>>

ScoreFraud(r) ==
    /\ pc[r] = "fraud"
    /\ request[r].fault # "fraud"
    /\ LET scoring == calculate_thumbprint_score(frame[r].classified_transactions)
       IN  frame' = [frame EXCEPT ![r].fraud_score = Some(scoring.score),
                                  ![r].fraud_factors = scoring.factors]
    /\ ran' = [ran EXCEPT ![r] = Append(@, "fraud")]
    /\ pc' = [pc EXCEPT ![r] = AfterStage("fraud")]
    /\ UNCHANGED <<sharedVars, harnessVars, request, alone, response, reply, failed, fraud_writes>>

InjectFraudScore(r) ==
    /\ pc[r] = "inject"
    /\ frame' = [frame EXCEPT ![r].metrics =
                                  Some(InjectedMetrics(frame[r].metrics[1], frame[r].fraud_score[1]))]
    /\ fraud_writes' = [fraud_writes EXCEPT ![r] = @ + 1]
    /\ pc' = [pc EXCEPT ![r] = AfterStage("inject")]
    /\ UNCHANGED <<sharedVars, harnessVars, request, alone, response, reply, ran, failed>>

CashFlow(r) ==
    /\ pc[r] = "cash_flow"
    /\ request[r].fault # "cash_flow"
    /\ frame' = [frame EXCEPT ![r].cash_flow =
                                  Some(_calculate_overall_cashflow(frame[r].monthly_summaries,
                                                                   frame[r].mca_positions))]
    /\ ran' = [ran EXCEPT ![r] = Append(@, "cash_flow")]
    /\ pc' = [pc EXCEPT ![r] = AfterStage("cash_flow")]
    /\ UNCHANGED <<sharedVars, harnessVars, request, alone, response, reply, failed, fraud_writes>>

Confidence(r) ==
    /\ pc[r] = "confidence"
    /\ request[r].fault # "confidence"
    /\ frame' = [frame EXCEPT ![r].final_confidence =
                                  Some(_calculate_final_confidence(
                                           frame[r].base_confidence[1],
                                           frame[r].classified_transactions,
                                           frame[r].fraud_score[1]))]
    /\ ran' = [ran EXCEPT ![r] = Append(@, "confidence")]
    /\ pc' = [pc EXCEPT ![r] = AfterStage("confidence")]
    /\ UNCHANGED <<sharedVars, harnessVars, request, alone, response, reply, failed, fraud_writes>>

BuildResponse(r) ==
    /\ pc[r] = "respond"
    /\ \E processing_time \in Durations :
          response' = [response EXCEPT ![r] =
                          Some(MoneyThumbResponse(
                                   frame[r].account[1], frame[r].classified_transactions,
                                   frame[r].monthly_summaries, frame[r].mca_positions,
                                   frame[r].metrics[1], frame[r].cash_flow[1],
                                   frame[r].final_confidence[1], processing_time))]
    /\ pc' = [pc EXCEPT ![r] = AfterStage("respond")]
    /\ UNCHANGED <<sharedVars, harnessVars, request, alone, frame, reply, ran, failed, fraud_writes>>

(* The stage the request's fault names raises as it starts *)
Raise(r) ==
    /\ pc[r] = request[r].fault
    /\ \E k \in DOMAIN StageOrder : StageOrder[k] = pc[r]
    /\ pc[r] = "classify" => frame[r].classified_transactions = <<>>
    /\ ran' = [ran EXCEPT ![r] = Append(@, pc[r])]
    /\ failed' = [failed EXCEPT ![r] = pc[r]]
    /\ pc' = [pc EXCEPT ![r] = OnException(pc[r])]
    /\ UNCHANGED <<sharedVars, harnessVars, request, alone, frame, response, reply, fraud_writes>>

Report(r) ==
    /\ pc[r] = "returned"
    /\ request[r].fault # "report"
    /\ reply' = [reply EXCEPT ![r] =
                    Some([status |-> 200, body |-> generate_json_report(response[r][1])])]
    /\ pc' = [pc EXCEPT ![r] = "replied"]
    /\ UNCHANGED <<sharedVars, harnessVars, request, alone, frame, response, ran, failed, fraud_writes>>

ReportRaises(r) ==
    /\ pc[r] = "returned"
    /\ request[r].fault = "report"
    /\ failed' = [failed EXCEPT ![r] = "report"]
    /\ pc' = [pc EXCEPT ![r] = "raised"]
    /\ UNCHANGED <<sharedVars, harnessVars, request, alone, frame, response, reply, ran, fraud_writes>>

(* except Exception as e: the reply is the error, with status 500 *)
HandleException(r) ==
    /\ pc[r] = "raised"
    /\ reply' = [reply EXCEPT ![r] = Some([status |-> 500, body |-> [error |-> failed[r]]])]
    /\ pc' = [pc EXCEPT ![r] = "replied"]
    /\ UNCHANGED <<sharedVars, harnessVars, request, alone, frame, response, ran, failed, fraud_writes>>

Next ==
    \E r \in Runs :
        \/ Receive(r)
        \/ Ingest(r)
        \/ ClassifyNext(r)
        \/ DetectMca(r)
        \/ Monthly(r)
        \/ Metrics(r)
        \/ ScoreFraud(r)
        \/ InjectFraudScore(r)
        \/ CashFlow(r)
        \/ Confidence(r)
        \/ BuildResponse(r)
        \/ Raise(r)
        \/ Report(r)
        \/ ReportRaises(r)
        \/ HandleException(r)

(* One request at a time *)
Init ==
    /\ InitShared
    /\ IdleClassify
    /\ IdleFraud
    /\ IdleConfidence
    /\ \E q \in Requests : InitPipeline([r \in Runs |-> IF r = 1 THEN q ELSE NoRequest])

Spec == Init /\ [][Next]_vars

(* A request on every thread of the server, the runs interleaved *)
InitConcurrent ==
    /\ InitShared
    /\ IdleClassify
    /\ IdleFraud
    /\ IdleConfidence
    /\ \E requests \in [Runs -> ConcurrentRequests] : InitPipeline(requests)

SpecConcurrent == InitConcurrent /\ [][Next]_vars

----------------------------------------------------------------------------
(* Claims about classify_transaction, under SpecClassify *)

(* C1: after classify_transaction returns, the category is one of the five *)
(* categories, is_true_revenue holds exactly when the category is          *)
(* TRUE_REVENUE and is_mca_payment exactly when it is MCA_PAYMENT.         *)
CategoryAndFlagsConsistent ==
    calls >= 1 =>
        /\ transaction.category \in Categories
        /\ transaction.is_true_revenue <=> (transaction.category = "TRUE_REVENUE")
        /\ transaction.is_mca_payment <=> (transaction.category = "MCA_PAYMENT")

(* The three conditions of the NSF override, read off the transaction *)
HasNsfKeyword(t) ==
    \E i \in DOMAIN classifier.nsf_patterns :
        Contains(Upper(t.description), Upper(classifier.nsf_patterns[i]))

IsReturnCredit(t) ==
    Contains(Upper(t.description), <<"R", "E", "T", "U", "R", "N">>) /\ t.amount > 0

(* C2: a transaction whose description holds an NSF or overdraft keyword,  *)
(* or whose balance is negative, or whose description holds RETURN while   *)
(* its amount is positive, ends as NON_TRUE_REVENUE whatever its branch    *)
(* assigned; so does every transaction with a negative balance.            *)
NsfOverrideWins ==
    calls >= 1 =>
        /\ (HasNsfKeyword(transaction) \/ transaction.balance < 0 \/ IsReturnCredit(transaction))
              => transaction.category = "NON_TRUE_REVENUE"
        /\ transaction.balance < 0 => transaction.category = "NON_TRUE_REVENUE"

(* A debit that matches a lender pattern, with no NSF keyword, overridden  *)
(* by its negative balance alone.                                          *)
NsfOverrideWitness ==
    /\ calls = 1
    /\ transaction.transaction_type = "DEBIT"
    /\ transaction.balance < 0
    /\ ~HasNsfKeyword(transaction)
    /\ ~IsReturnCredit(transaction)
    /\ transaction.is_mca_payment
    /\ transaction.category = "NON_TRUE_REVENUE"

(* C3: classifying the classified transaction again leaves category,       *)
(* is_true_revenue, is_mca_payment and mca_lender as the first call left    *)
(* them.                                                                   *)
ClassifyIdempotent ==
    calls >= 2 =>
        /\ transaction.category = first[1].category
        /\ transaction.is_true_revenue = first[1].is_true_revenue
        /\ transaction.is_mca_payment = first[1].is_mca_payment
        /\ transaction.mca_lender = first[1].mca_lender

(* A lender payment classified twice, lender name kept *)
ClassifyIdempotentWitness ==
    /\ calls = 2
    /\ transaction.category = "MCA_PAYMENT"
    /\ transaction.is_mca_payment
    /\ transaction.mca_lender # None
    /\ first[1].category = "MCA_PAYMENT"

----------------------------------------------------------------------------
(* Claims about calculate_thumbprint_score, under SpecFraud *)

Points(b, n) == IF b THEN n ELSE 0

Label(b, label) == IF b THEN label ELSE <<>>

ScoreIsSumOfTriggered(ts, result) ==
    LET round == _has_round_number_pattern(ts)
        identical == _has_identical_deposits(ts)
        timing == _has_unusual_timing(ts)
        breaks == _has_pattern_breaks(ts)
    IN  /\ result.score = Min(1000, Points(round, 150) + Points(identical, 200)
                                     + Points(timing, 100) + Points(breaks, 100))
        /\ result.score \in 0..1000
        /\ result.factors = Label(round, RoundLabel) \o Label(identical, IdenticalLabel)
                            \o Label(timing, TimingLabel) \o Label(breaks, PatternLabel)

(* C4: the score is min(1000, 150 [round-number] + 200 [identical]         *)
(* + 100 [timing] + 100 [pattern break]), so within 0..1000, and the       *)
(* factors are the labels of the triggered checks in that order.           *)
ScoreIsCappedSum ==
    /\ scored # None => ScoreIsSumOfTriggered(statement, scored[1])
    /\ scored_ext # None => ScoreIsSumOfTriggered(statement \o extension, scored_ext[1])

(* All four checks triggered on one statement *)
ScoreIsCappedSumWitness ==
    /\ scored # None
    /\ scored[1].score = 550
    /\ scored[1].factors = RoundLabel \o IdenticalLabel \o TimingLabel \o PatternLabel

(* C5, as claimed: the score of a statement extended with any transactions *)
(* is never lower than the score of the statement, and neither is above    *)
(* 1000.                                                                   *)
FraudScoreMonotonic ==
    scored_ext # None =>
        /\ scored_ext[1].score >= scored[1].score
        /\ scored[1].score <= 1000
        /\ scored_ext[1].score <= 1000

Triggered(result) == {result.factors[i] : i \in DOMAIN result.factors}

(* C5, amended: neither score is above 1000; the extended statement scores *)
(* no lower when every check triggered on the statement is still triggered *)
(* on the extended one; added withdrawals change nothing; and the          *)
(* identical-deposits check, once triggered, stays triggered.              *)
FraudScoreMonotonicWhenKept ==
    scored_ext # None =>
        /\ scored[1].score <= 1000
        /\ scored_ext[1].score <= 1000
        /\ Triggered(scored[1]) \subseteq Triggered(scored_ext[1])
              => scored_ext[1].score >= scored[1].score
        /\ Credits(extension) = <<>> => scored_ext[1] = scored[1]
        /\ IdenticalLabel[1] \in Triggered(scored[1])
              => IdenticalLabel[1] \in Triggered(scored_ext[1])

(* Added deposits trigger one more check and the score rises *)
FraudScoreMonotonicWitness ==
    /\ scored_ext # None
    /\ Credits(extension) # <<>>
    /\ Triggered(scored[1]) # {}
    /\ Triggered(scored[1]) \subseteq Triggered(scored_ext[1])
    /\ Triggered(scored[1]) # Triggered(scored_ext[1])
    /\ scored_ext[1].score > scored[1].score

----------------------------------------------------------------------------
(* Claims about _calculate_final_confidence, under SpecConfidence *)

FraudPenalty(fraud_score) ==
    IF fraud_score > 500 THEN 30 ELSE IF fraud_score > 200 THEN 10 ELSE 0

SizePenalty(transactions) == IF Len(transactions) < 20 THEN 20 ELSE 0

VarietyBonus(transactions) ==
    IF \E a, b, c \in Categories :
          /\ a # b /\ a # c /\ b # c
          /\ \A x \in {a, b, c} : \E i \in DOMAIN transactions : transactions[i].category = x
    THEN 10 ELSE 0

Clamped(x) == IF x < 0 THEN 0 ELSE IF x > 100 THEN 100 ELSE x

(* C6: the blend is the base, less 0.3 above a fraud score of 500 or else   *)
(* 0.1 above 200, less 0.2 under 20 transactions, plus 0.1 with three or    *)
(* more distinct non-null categories, clamped to 0.0..1.0.                  *)
ConfidenceIsClampedBlend ==
    conf_out # None =>
        /\ conf_out[1] = Clamped(conf_in.base_confidence - FraudPenalty(conf_in.fraud_score)
                                  - SizePenalty(conf_in.transactions)
                                  + VarietyBonus(conf_in.transactions))
        /\ conf_out[1] \in 0..100

(* Every adjustment applied at once and the result not clamped *)
ConfidenceIsClampedBlendWitness ==
    /\ conf_out = Some(55)
    /\ conf_in.base_confidence = 95
    /\ conf_in.fraud_score > 500
    /\ Len(conf_in.transactions) < 20
    /\ Cardinality(DistinctCategories(conf_in.transactions)) >= 3

----------------------------------------------------------------------------
(* The pipeline, one request at a time (Spec) and interleaved                *)
(* (SpecConcurrent).                                                        *)

Stages == {StageOrder[k] : k \in DOMAIN StageOrder}

IsPrefix(s, t) == Len(s) <= Len(t) /\ SubSeq(t, 1, Len(s)) = s

AllZero(rec) == \A f \in DOMAIN rec : rec[f] = 0

Ingested(r) == ran[r] # <<>> /\ failed[r] # "ingest"

IsEmptyResult(r) ==
    /\ response[r] # None
    /\ response[r][1].account = request[r].document.account
    /\ response[r][1].transactions = <<>>
    /\ response[r][1].mca_positions = <<>>
    /\ response[r][1].monthly_summaries = <<>>
    /\ AllZero(response[r][1].metrics)
    /\ AllZero(response[r][1].cash_flow)
    /\ response[r][1].confidence_score = 0

(* C7: once ingestion has returned an empty transaction list the run is in  *)
(* the empty-result state: ingest is the only stage that ran or ever runs,  *)
(* no fraud score is injected, and the response has no transactions, no MCA *)
(* positions, no monthly summaries, all metrics (fraud_score among them)    *)
(* and all cash-flow figures zero and confidence 0 whatever the base        *)
(* confidence of the OCR.  No other run takes the branch: a response to a   *)
(* non-empty list comes after all eight stages and carries transactions.    *)
EmptyShortCircuits ==
    \A r \in Runs :
        /\ (Ingested(r) /\ request[r].document.transactions = <<>>) =>
              /\ ran[r] = <<"ingest">>
              /\ fraud_writes[r] = 0
              /\ frame[r].classified_transactions = <<>>
              /\ frame[r].metrics = None
              /\ frame[r].fraud_score = None
              /\ frame[r].cash_flow = None
              /\ frame[r].final_confidence = None
              /\ IsEmptyResult(r)
              /\ pc[r] \in {"returned", "raised", "replied"}
        /\ (response[r] # None /\ request[r].document.transactions # <<>>) =>
              /\ ran[r] = StageOrder
              /\ response[r][1].transactions # <<>>

EmptyShortCircuitsWitness ==
    \E r \in Runs :
        /\ request[r].document.transactions = <<>>
        /\ request[r].document.confidence_score = 100
        /\ ran[r] = <<"ingest">>
        /\ IsEmptyResult(r)
        /\ pc[r] = "replied"
        /\ reply[r] # None
        /\ reply[r][1].status = 200

(* C8: when a stage of the pipeline has raised, it is the last stage that   *)
(* ran and it ran once (the stages before it once each, in order, none      *)
(* after it), process_bank_statement has returned no response, and the      *)
(* request is answered, if at all, by the error with status 500: never by a *)
(* report.                                                                  *)
FailFast ==
    \A r \in Runs :
        failed[r] \in Stages =>
            /\ ran[r] # <<>>
            /\ ran[r][Len(ran[r])] = failed[r]
            /\ IsPrefix(ran[r], StageOrder)
            /\ response[r] = None
            /\ pc[r] \in {"raised", "replied"}
            /\ pc[r] = "replied" => reply[r] # None
            /\ reply[r] # None =>
                  /\ reply[r][1].status = 500
                  /\ DOMAIN reply[r][1].body = {"error"}

FailFastWitness ==
    \E r \in Runs :
        /\ failed[r] = "fraud"
        /\ ran[r] = SubSeq(StageOrder, 1, 6)
        /\ frame[r].metrics # None
        /\ response[r] = None
        /\ pc[r] = "replied"
        /\ reply[r] # None
        /\ reply[r][1].status = 500

(* C9: with the runs interleaved on the one instance, the rule tables of    *)
(* the classifier and of the fraud scorer stay as constructed, and the      *)
(* response of each run is, but for its processing time, the response       *)
(* process_bank_statement gives to the same document on a fresh instance,   *)
(* alone.                                                                   *)
RunsDoNotInterfere ==
    /\ classifier = TransactionClassifier
    /\ fraud_detector = FraudDetector
    /\ \A r \in Runs :
          response[r] # None =>
              [response[r][1] EXCEPT !.processing_time = 0] = alone[r]

IsNsfItem(t) ==
    /\ _is_nsf_transaction(TransactionClassifier, t, Upper(t.description))
    /\ t.category = "NON_TRUE_REVENUE"

(* One run has answered while another is in its classification loop, each  *)
(* with an NSF item classified.                                            *)
RunsDoNotInterfereWitness ==
    \E r1, r2 \in Runs :
        /\ r1 # r2
        /\ response[r1] # None
        /\ response[r1][1].transactions # <<>>
        /\ response[r2] = None
        /\ pc[r2] = "classify"
        /\ \E i \in DOMAIN frame[r2].classified_transactions :
              IsNsfItem(frame[r2].classified_transactions[i])
        /\ \E i \in DOMAIN response[r1][1].transactions :
              IsNsfItem(response[r1][1].transactions[i])

(* C10: the stages that have run are a beginning of the eight in their      *)
(* order; metrics.fraud_score is written at most once in a run, only after  *)
(* the metrics and the fraud scoring, and a response to a non-empty list    *)
(* comes after all eight stages and exactly one write; the value written,   *)
(* and the one the response carries, is the score of the fraud scorer for   *)
(* the classified transactions.                                             *)
StagesInOrderFraudOnce ==
    \A r \in Runs :
        /\ IsPrefix(ran[r], StageOrder)
        /\ fraud_writes[r] <= 1
        /\ fraud_writes[r] = 1 =>
              /\ IsPrefix(SubSeq(StageOrder, 1, 6), ran[r])
              /\ frame[r].metrics # None
              /\ frame[r].metrics[1].fraud_score
                    = calculate_thumbprint_score(frame[r].classified_transactions).score
        /\ (response[r] # None /\ request[r].document.transactions # <<>>) =>
              /\ ran[r] = StageOrder
              /\ fraud_writes[r] = 1
              /\ response[r][1].transactions = frame[r].classified_transactions
              /\ response[r][1].metrics.fraud_score
                    = calculate_thumbprint_score(response[r][1].transactions).score

StagesInOrderFraudOnceWitness ==
    \E r \in Runs :
        /\ response[r] # None
        /\ ran[r] = StageOrder
        /\ fraud_writes[r] = 1
        /\ response[r][1].metrics.fraud_score = 550

----------------------------------------------------------------------------
(* The assignments of one call, counted (SpecClassifyWrites)                *)

(* C11: during one classify_transaction call on a raw transaction, the     *)
(* category and each of the flags is_true_revenue and is_mca_payment are   *)
(* assigned at most once: the category of the branch is not overwritten.   *)
WrittenAtMostOnce ==
    /\ written.category <= 1
    /\ written.is_true_revenue <= 1
    /\ written.is_mca_payment <= 1

----------------------------------------------------------------------------
(* The cascades of the two branches (SpecClassify)                         *)

NoNsfCondition(t) ==
    ~(HasNsfKeyword(t) \/ t.balance < 0 \/ IsReturnCredit(t))

InList(t, list) ==
    \E i \in DOMAIN list : Contains(Upper(t.description), Upper(list[i]))

(* C12: a credit for which no condition of the NSF override holds is       *)
(* NON_TRUE_REVENUE with is_true_revenue false if its upper-cased          *)
(* description holds an entry of the non-true-revenue list, whether or not *)
(* it also holds a true-revenue keyword, and otherwise TRUE_REVENUE with   *)
(* is_true_revenue true, a true-revenue keyword matching or none.          *)
CreditCascade ==
    (calls >= 1 /\ transaction.transaction_type = "CREDIT" /\ NoNsfCondition(transaction)) =>
        IF InList(transaction, classifier.credit_categories.non_true_revenue)
        THEN transaction.category = "NON_TRUE_REVENUE" /\ ~transaction.is_true_revenue
        ELSE transaction.category = "TRUE_REVENUE" /\ transaction.is_true_revenue

(* A credit that holds both LOAN DEPOSIT and DEPOSIT, classified once *)
CreditCascadeWitness ==
    /\ calls = 1
    /\ transaction.transaction_type = "CREDIT"
    /\ NoNsfCondition(transaction)
    /\ InList(transaction, classifier.credit_categories.non_true_revenue)
    /\ InList(transaction, classifier.credit_categories.true_revenue)
    /\ transaction.category = "NON_TRUE_REVENUE"
    /\ ~transaction.is_true_revenue

MatchesLender(t) ==
    \E i \in DOMAIN classifier.debit_categories.mca_payments.patterns :
        RegexSearch(classifier.debit_categories.mca_payments.patterns[i], Upper(t.description))

(* C13: a debit for which no condition of the NSF override holds is        *)
(* MCA_PAYMENT, flagged is_mca_payment and with a lender that is not None, *)
(* if a lender signature matches; else OPERATING_EXPENSE if an operating   *)
(* expense keyword matches; else TRANSFER_OUT if a transfer-out keyword    *)
(* matches; else OPERATING_EXPENSE.  No debit is TRUE_REVENUE, and only a  *)
(* transaction flagged is_mca_payment has a lender.                        *)
DebitCascade ==
    calls >= 1 =>
        /\ (transaction.transaction_type = "DEBIT" /\ NoNsfCondition(transaction)) =>
              IF MatchesLender(transaction)
              THEN /\ transaction.category = "MCA_PAYMENT"
                   /\ transaction.is_mca_payment
                   /\ transaction.mca_lender # None
              ELSE IF InList(transaction, classifier.debit_categories.operating_expenses)
              THEN transaction.category = "OPERATING_EXPENSE"
              ELSE IF InList(transaction, classifier.debit_categories.transfers_out)
              THEN transaction.category = "TRANSFER_OUT"
              ELSE transaction.category = "OPERATING_EXPENSE"
        /\ transaction.transaction_type = "DEBIT" => transaction.category # "TRUE_REVENUE"
        /\ transaction.mca_lender # None => transaction.is_mca_payment

(* A debit that matches a lender signature and an operating expense       *)
(* keyword, classified once                                               *)
DebitCascadeWitness ==
    /\ calls = 1
    /\ transaction.transaction_type = "DEBIT"
    /\ NoNsfCondition(transaction)
    /\ MatchesLender(transaction)
    /\ InList(transaction, classifier.debit_categories.operating_expenses)
    /\ transaction.category = "MCA_PAYMENT"
    /\ transaction.is_mca_payment
    /\ transaction.mca_lender # None

----------------------------------------------------------------------------
(* The fraud score and the confidence penalties of a pipeline run (Spec)   *)

AllFourLabels == RoundLabel \o IdenticalLabel \o TimingLabel \o PatternLabel

(* C14: in a pipeline run the fraud score is at most 550; it is above 500  *)
(* only with all four heuristics triggered, and then the run has at least  *)
(* 20 credit transactions; so the penalty of 0.3 for a score above 500 and *)
(* the penalty of 0.2 for fewer than 20 transactions are never applied     *)
(* together, and the confidence of the run is the clamped blend with at    *)
(* most one of the two.                                                    *)
HighFraudNeedsTwenty ==
    \A r \in Runs :
        frame[r].fraud_score # None =>
            LET score == frame[r].fraud_score[1]
                ts == frame[r].classified_transactions
            IN  /\ score <= 550
                /\ score > 500 =>
                      /\ frame[r].fraud_factors = AllFourLabels
                      /\ Len(Credits(ts)) >= 20
                      /\ Len(ts) >= 20
                /\ ~(FraudPenalty(score) = 30 /\ SizePenalty(ts) = 20)
                /\ frame[r].final_confidence # None =>
                      /\ frame[r].final_confidence[1]
                            = Clamped(frame[r].base_confidence[1] - FraudPenalty(score)
                                      - SizePenalty(ts) + VarietyBonus(ts))
                      /\ FraudPenalty(score) + SizePenalty(ts) <= 30

(* A run scored 550 on 20 transactions or more, answered with the penalty  *)
(* of 0.3 alone                                                            *)
HighFraudNeedsTwentyWitness ==
    \E r \in Runs :
        /\ frame[r].fraud_score = Some(550)
        /\ Len(frame[r].classified_transactions) >= 20
        /\ response[r] # None
        /\ response[r][1].confidence_score
              = Clamped(request[r].document.confidence_score - 30
                        + VarietyBonus(response[r][1].transactions))
        /\ response[r][1].confidence_score < request[r].document.confidence_score

====
